---- MODULE Spec2Model ----
(***************************************************************************)
(* Workplan-App: the roster generator of scheduler.py / person.py.        *)
(*                                                                         *)
(* The state is the Scheduler object (persons, the slots map of the plan   *)
(* being built, the shuffled candidate pool, the list of returned plans)   *)
(* and every Person's assigned_blocks.  One generation is cut into steps:  *)
(* the start of a generation (reset + shuffle), one step per candidate     *)
(* that an assignment loop tries, and the building of the plan table.      *)
(* Loop turns that change nothing (a block that is full or has nobody       *)
(* eligible, a person the top-up pass does not apply to) are passed over    *)
(* by the step that moves a loop to its next position.  A second            *)
(* specification calls the contiguity check on its own, on any person.      *)
(***************************************************************************)
EXTENDS Integers, Sequences, FiniteSets, TLC

\* ------------------------------------------------------------------ bounds
\* At most this many persons (rows of the availability table).
MaxPersons == 2
\* generate_plans(num_plans): the number of plans one call produces.
MaxPlans == 2
\* The largest workload cap (max_blocks) a row of the table carries.
MaxCap == 12

\* ------------------------------------------------------- roster catalog
days == <<"Montag", "Dienstag", "Mittwoch", "Donnerstag", "Freitag">>

times == <<"10-12", "12-14", "14-16", "16-18">>

\* self.blocks: every (day, time) pair, days outermost.
blocks ==
  [k \in 1..(Len(days) * Len(times)) |->
     <<days[((k - 1) \div Len(times)) + 1], times[((k - 1) % Len(times)) + 1]>>]

BlockSet == {blocks[k] : k \in DOMAIN blocks}

\* self.times.index(t)
TimesIndex(t) == CHOOSE k \in DOMAIN times : times[k] = t

\* needed = 2 if block[1] == '10-12' else 3
Needed(block) == IF block[2] = "10-12" THEN 2 ELSE 3

\* The tiers taken from the lowest to the highest.
LevelsAscending == <<1, 2, 3>>

\* The tiers of the first pass, in the order they are processed.
Levels == <<3, 2, 1>>

\* block_hours: every time block counts 2 hours.
block_hours == [t \in {times[k] : k \in DOMAIN times} |-> 2]

\* ------------------------------------------------------ python helpers
\* Python's ordering of tuples (and of strings, as sequences of code
\* points): the first differing element decides, a proper prefix is smaller.
RECURSIVE LexLess(_, _)
LexLess(a, b) ==
  IF a = <<>> THEN b # <<>>
  ELSE IF b = <<>> THEN FALSE
  ELSE IF Head(a) # Head(b) THEN Head(a) < Head(b)
  ELSE LexLess(Tail(a), Tail(b))

\* One insertion of a <<key, element>> pair into a list sorted by key: the
\* pair goes behind every pair whose key is not greater (stability).
InsertByKey(s, x) ==
  LET later == {j \in 1..Len(s) : LexLess(x[1], s[j][1])}
      pos == IF later = {} THEN Len(s) + 1
             ELSE CHOOSE j \in later : \A q \in later : j <= q
  IN SubSeq(s, 1, pos - 1) \o <<x>> \o SubSeq(s, pos, Len(s))

RECURSIVE SortPairs(_)
SortPairs(s) ==
  IF s = <<>> THEN <<>>
  ELSE InsertByKey(SortPairs(SubSeq(s, 1, Len(s) - 1)), s[Len(s)])

\* list.sort(key=...) / sorted(..., key=...): stable, ascending by key.
\* keys[k] is the key of seq[k].
StableSort(seq, keys) ==
  LET sorted == SortPairs([k \in 1..Len(seq) |-> <<keys[k], seq[k]>>])
  IN [k \in 1..Len(seq) |-> sorted[k][2]]

\* [x for x in seq if Keep(x)]
RECURSIVE FilterSeq(_, _)
FilterSeq(seq, keep) ==
  IF seq = <<>> THEN <<>>
  ELSE IF Head(seq) \in keep THEN <<Head(seq)>> \o FilterSeq(Tail(seq), keep)
  ELSE FilterSeq(Tail(seq), keep)

\* The code points of the day names, for Python's string comparison.
DayChars ==
  [d \in {days[k] : k \in DOMAIN days} |->
     CASE d = "Montag"     -> <<77, 111, 110, 116, 97, 103>>
       [] d = "Dienstag"   -> <<68, 105, 101, 110, 115, 116, 97, 103>>
       [] d = "Mittwoch"   -> <<77, 105, 116, 116, 119, 111, 99, 104>>
       [] d = "Donnerstag" -> <<68, 111, 110, 110, 101, 114, 115, 116, 97, 103>>
       [] d = "Freitag"    -> <<70, 114, 101, 105, 116, 97, 103>>]

\* ------------------------------------------------------------- inputs
\* The names of the rows, in table order (unique within a run).
PersonNames == <<"A", "B", "C", "D">>

\* An availability row that is zero outside Montag and Dienstag.
Week(mo, di) ==
  [b \in BlockSet |->
     IF b[1] = "Montag" THEN mo[TimesIndex(b[2])]
     ELSE IF b[1] = "Dienstag" THEN di[TimesIndex(b[2])]
     ELSE 0]

\* The rows of the table the inputs are drawn from: <<availability, max_blocks>>.
\*  - a day whose best level comes last, so that the gap check turns blocks away;
\*  - the same with a fifth available block, so that the top-up pass applies;
\*  - a day with an unavailable block between available ones, under three caps;
\*  - levels above the tiers of the first pass on two days, under two caps;
\*  - a day with one block of each tier of the first pass.
Rows ==
  { <<Week(<<1, 2, 1, 3>>, <<0, 0, 0, 0>>), MaxCap>>,
    <<Week(<<1, 2, 1, 3>>, <<1, 0, 0, 0>>), 8>>,
    <<Week(<<3, 0, 3, 1>>, <<0, 0, 0, 0>>), 0>>,
    <<Week(<<3, 0, 3, 1>>, <<0, 0, 0, 0>>), 4>>,
    <<Week(<<3, 0, 3, 1>>, <<0, 0, 0, 0>>), 8>>,
    <<Week(<<4, 3, 0, 0>>, <<4, 3, 3, 0>>), 8>>,
    <<Week(<<4, 3, 0, 0>>, <<4, 3, 3, 0>>), MaxCap>>,
    <<Week(<<2, 3, 0, 1>>, <<0, 0, 0, 0>>), 8>> }

\* seed=None
None == "None"

\* ---------------------------------------------------------------- state
VARIABLES
  persons,            \* self.persons: <<[name, availability, max_blocks]>>
  assigned_blocks,    \* Person.assigned_blocks of every person (by position)
  caller,             \* who asks: generate_plans (seed=i) or a direct call (seed=None)
  num_plans,          \* generate_plans: its argument
  i,                  \* generate_plans: the loop index
  plans,              \* generate_plans: the plans built so far
  orders,             \* history: persons_sorted of every finished generation
  seed,               \* _generate_single_plan: its argument
  slots,              \* _generate_single_plan: block -> list of names
  persons_sorted,     \* _generate_single_plan: the shuffled pool (positions)
  pc,                 \* where the generation stands
  pos,                \* the loop position of the current pass
  eligible,           \* the candidates of the current block still to try
  additional_blocks,  \* top-up: the blocks still to offer to the current person
  free_blocks,        \* backfill: the blocks found understaffed when it began
  asked_block,        \* _would_create_gap_sequence called on its own: the candidate
  would_gap           \* _would_create_gap_sequence called on its own: the answer

vars == <<persons, assigned_blocks, caller, num_plans, i, plans, orders, seed, slots,
          persons_sorted, pc, pos, eligible, additional_blocks, free_blocks,
          asked_block, would_gap>>

\* --------------------------------------------------------------- Person
\* Person.block_count
block_count(p) == Len(assigned_blocks[p])

\* Person.available_blocks_count (min_level=1)
available_blocks_count(p) ==
  Cardinality({b \in BlockSet : persons[p].availability[b] >= 1})

\* can_receive_block without the test of the level.
CanReceiveAny(p, block) == block \in DOMAIN persons[p].availability

\* Person.can_receive_block
can_receive_block(p, block) ==
  block \in DOMAIN persons[p].availability /\ persons[p].availability[block] > 0

\* Person.wants_block
wants_block(p, block) ==
  IF block \in DOMAIN persons[p].availability
  THEN persons[p].availability[block] ELSE 0

RECURSIVE SumHours(_)
SumHours(bs) ==
  IF bs = <<>> THEN 0 ELSE block_hours[Head(bs)[2]] + SumHours(Tail(bs))

\* Person.assigned_hours
assigned_hours(p) == SumHours(assigned_blocks[p])

\* add_block that keeps assigned_blocks free of repetitions.
AddBlockOnce(p, block) ==
  IF \E k \in DOMAIN assigned_blocks[p] : assigned_blocks[p][k] = block
  THEN assigned_blocks
  ELSE [assigned_blocks EXCEPT ![p] = Append(@, block)]

\* Person.add_block: the list after the append.
add_block(p, block) ==
  [assigned_blocks EXCEPT ![p] = Append(@, block)]

\* A reset that clears nothing.
NoReset == assigned_blocks

\* Person.reset_blocks, for every person (generate_plans, step a).
reset_blocks == [p \in DOMAIN persons |-> <<>>]

\* any(d == block[0] for d, t in p.assigned_blocks)
AssignedOnDay(p, day) ==
  \E k \in DOMAIN assigned_blocks[p] : assigned_blocks[p][k][1] = day

\* ------------------------------------------------------------ Scheduler
\* The gap check without the candidate block among the simulated blocks.
GapIgnoringCandidate(p, new_block) ==
  LET day == new_block[1]
      available == {t \in {times[k] : k \in DOMAIN times} :
                      wants_block(p, <<day, t>>) >= 1}
      assigned == {assigned_blocks[p][k][2] :
                     k \in {q \in DOMAIN assigned_blocks[p] :
                              assigned_blocks[p][q][1] = day}}
      idxs == {TimesIndex(t) : t \in assigned}
      first_idx == CHOOSE x \in idxs : \A y \in idxs : x <= y
      last_idx == CHOOSE x \in idxs : \A y \in idxs : x >= y
  IN IF Cardinality(available) < 3 \/ assigned = {} THEN FALSE
     ELSE \E idx \in first_idx..last_idx :
            times[idx] \in available /\ times[idx] \notin assigned

\* The gap check without the early return for days with fewer than 3
\* available time blocks.
GapWithoutThreshold(p, new_block) ==
  LET day == new_block[1]
      available == {t \in {times[k] : k \in DOMAIN times} :
                      wants_block(p, <<day, t>>) >= 1}
      assigned == {assigned_blocks[p][k][2] :
                     k \in {q \in DOMAIN assigned_blocks[p] :
                              assigned_blocks[p][q][1] = day}}
      test_blocks == assigned \cup {new_block[2]}
      idxs == {TimesIndex(t) : t \in test_blocks}
      first_idx == CHOOSE x \in idxs : \A y \in idxs : x <= y
      last_idx == CHOOSE x \in idxs : \A y \in idxs : x >= y
  IN \E idx \in first_idx..last_idx :
       times[idx] \in available /\ times[idx] \notin test_blocks

\* Scheduler._would_create_gap_sequence
_would_create_gap_sequence(p, new_block) ==
  LET day == new_block[1]
      time == new_block[2]
      available == {t \in {times[k] : k \in DOMAIN times} :
                      wants_block(p, <<day, t>>) >= 1}
      assigned == {assigned_blocks[p][k][2] :
                     k \in {q \in DOMAIN assigned_blocks[p] :
                              assigned_blocks[p][q][1] = day}}
      test_blocks == assigned \cup {time}
      idxs == {TimesIndex(t) : t \in test_blocks}
      first_idx == CHOOSE x \in idxs : \A y \in idxs : x <= y
      last_idx == CHOOSE x \in idxs : \A y \in idxs : x >= y
  IN IF Cardinality(available) < 3 THEN FALSE
     ELSE \E idx \in first_idx..last_idx :
            times[idx] \in available /\ times[idx] \notin test_blocks

\* The membership test  p.name in slots[block].
NameInSlot(p, block) ==
  \E k \in DOMAIN slots[block] : slots[block][k] = persons[p].name

\* p.add_block(block); slots[block].append(p.name)
AssignTo(p, block) ==
  /\ assigned_blocks' = add_block(p, block)
  /\ slots' = [slots EXCEPT ![block] = Append(@, persons[p].name)]

\* The loop body without the test  len(slots[block]) < needed.
TryCandidateUnbounded(block) ==
  LET p == Head(eligible)
  IN /\ IF ~_would_create_gap_sequence(p, block)
        THEN AssignTo(p, block)
        ELSE UNCHANGED <<assigned_blocks, slots>>
     /\ eligible' = Tail(eligible)

\* The body of the loops "for p in eligible" of passes 1 and 3 for the first
\* candidate left: assign unless the block is full or a gap would open.
\* Once the block is full the remaining candidates change nothing.
TryCandidate(block) ==
  LET p == Head(eligible)
  IN IF Len(slots[block]) < Needed(block) /\ ~_would_create_gap_sequence(p, block)
     THEN /\ AssignTo(p, block)
          /\ eligible' = IF Len(slots[block]) + 1 < Needed(block)
                         THEN Tail(eligible) ELSE <<>>
     ELSE /\ UNCHANGED <<assigned_blocks, slots>>
          /\ eligible' = IF Len(slots[block]) < Needed(block)
                         THEN Tail(eligible) ELSE <<>>

\* ---- pass 1: assign_blocks(priority_level) for level in [3, 2, 1]
\* Position k of the first pass is block ((k-1) mod 20)+1 of tier ((k-1) div 20)+1.
Pass1Len == Len(Levels) * Len(blocks)

Pass1Level(k) == Levels[((k - 1) \div Len(blocks)) + 1]

Pass1Block(k) == blocks[((k - 1) % Len(blocks)) + 1]

\* The eligible list of assign_blocks, before it is sorted.
Pass1Eligible(priority_level, block) ==
  FilterSeq(persons_sorted,
            {p \in DOMAIN persons :
               /\ wants_block(p, block) = priority_level
               /\ assigned_hours(p) + 2 <= persons[p].max_blocks
               /\ can_receive_block(p, block)})

\* The sort key of assign_blocks.
Pass1Key(p, block) ==
  << IF AssignedOnDay(p, block[1]) THEN 0 ELSE 1,
     assigned_hours(p),
     0 - available_blocks_count(p) >>

Pass1Sorted(priority_level, block) ==
  LET e == Pass1Eligible(priority_level, block)
  IN StableSort(e, [k \in 1..Len(e) |-> Pass1Key(e[k], block)])

\* The positions behind pos at which the loop body does something: the block
\* is below its headcount and somebody is eligible.
Pass1Work ==
  {k \in (pos + 1)..Pass1Len :
     /\ Len(slots[Pass1Block(k)]) < Needed(Pass1Block(k))
     /\ Pass1Eligible(Pass1Level(k), Pass1Block(k)) # <<>>}

AssignBlocksVisit ==
  /\ pc = "pass1"
  /\ eligible = <<>>
  /\ Pass1Work # {}
  /\ LET k == CHOOSE x \in Pass1Work : \A y \in Pass1Work : x <= y
     IN /\ pos' = k
        /\ eligible' = Pass1Sorted(Pass1Level(k), Pass1Block(k))
  /\ UNCHANGED <<asked_block, would_gap,
                 persons, assigned_blocks, caller, num_plans, i, plans, orders, seed, slots,
                 persons_sorted, pc, additional_blocks, free_blocks>>

AssignBlocksTry ==
  /\ pc = "pass1"
  /\ eligible # <<>>
  /\ TryCandidate(Pass1Block(pos))
  /\ UNCHANGED <<asked_block, would_gap,
                 persons, caller, num_plans, i, plans, orders, seed, persons_sorted, pc, pos,
                 additional_blocks, free_blocks>>

\* The third tier is through: the top-up pass begins.
AssignBlocksDone ==
  /\ pc = "pass1"
  /\ eligible = <<>>
  /\ Pass1Work = {}
  /\ pc' = "pass2"
  /\ pos' = 0
  /\ UNCHANGED <<asked_block, would_gap,
                 persons, assigned_blocks, caller, num_plans, i, plans, orders, seed, slots,
                 persons_sorted, eligible, additional_blocks, free_blocks>>

\* ---- pass 2: top-up
\* The rank of a day name under Python's string comparison.
DayNameRank(day) ==
  Cardinality({d \in DOMAIN DayChars : LexLess(DayChars[d], DayChars[day])})

\* key=lambda x: (x[0], self.times.index(x[1]))
AdditionalKey(block) == <<DayNameRank(block[1]), TimesIndex(block[2])>>

\* additional_blocks of person p, sorted.
AdditionalBlocks(p) ==
  LET a == FilterSeq(blocks, {b \in BlockSet :
                                can_receive_block(p, b) /\ ~NameInSlot(p, b)})
  IN StableSort(a, [k \in 1..Len(a) |-> AdditionalKey(a[k])])

\* if p.available_blocks_count() >= 5 and p.assigned_hours() < 8
TopUpQualifies(p) ==
  available_blocks_count(p) >= 5 /\ assigned_hours(p) < 8

\* The positions of persons_sorted behind pos whose loop body does something.
Pass2Work ==
  {k \in (pos + 1)..Len(persons_sorted) :
     /\ TopUpQualifies(persons_sorted[k])
     /\ AdditionalBlocks(persons_sorted[k]) # <<>>}

TopUpVisit ==
  /\ pc = "pass2"
  /\ additional_blocks = <<>>
  /\ Pass2Work # {}
  /\ LET k == CHOOSE x \in Pass2Work : \A y \in Pass2Work : x <= y
     IN /\ pos' = k
        /\ additional_blocks' = AdditionalBlocks(persons_sorted[k])
  /\ UNCHANGED <<asked_block, would_gap,
                 persons, assigned_blocks, caller, num_plans, i, plans, orders, seed, slots,
                 persons_sorted, pc, eligible, free_blocks>>

\* One block offered to the current person of the top-up pass.
TopUpTry ==
  /\ pc = "pass2"
  /\ additional_blocks # <<>>
  /\ LET p == persons_sorted[pos]
         block == Head(additional_blocks)
     IN IF /\ Len(slots[block]) < Needed(block)
           /\ assigned_hours(p) + 2 <= persons[p].max_blocks
           /\ ~_would_create_gap_sequence(p, block)
        THEN AssignTo(p, block)
        ELSE UNCHANGED <<assigned_blocks, slots>>
  /\ additional_blocks' = Tail(additional_blocks)
  /\ UNCHANGED <<asked_block, would_gap,
                 persons, caller, num_plans, i, plans, orders, seed, persons_sorted, pc, pos,
                 eligible, free_blocks>>

\* free_blocks, as the backfill pass lists them when it begins.
FreeBlocks ==
  FilterSeq(blocks, {b \in BlockSet : Len(slots[b]) < Needed(b)})

TopUpDone ==
  /\ pc = "pass2"
  /\ additional_blocks = <<>>
  /\ Pass2Work = {}
  /\ pc' = "pass3"
  /\ pos' = 0
  /\ free_blocks' = FreeBlocks
  /\ UNCHANGED <<asked_block, would_gap,
                 persons, assigned_blocks, caller, num_plans, i, plans, orders, seed, slots,
                 persons_sorted, eligible, additional_blocks>>

\* ---- pass 3: backfill
\* The backfill candidates without the test of the cap.
Pass3EligibleNoCap(block) ==
  FilterSeq(persons_sorted,
            {p \in DOMAIN persons : can_receive_block(p, block)})

\* The eligible list of the backfill pass, before it is sorted.
Pass3Eligible(block) ==
  FilterSeq(persons_sorted,
            {p \in DOMAIN persons :
               /\ can_receive_block(p, block)
               /\ assigned_hours(p) + 2 <= persons[p].max_blocks})

\* The sort key of the first pass used for the backfill pass as well.
Pass3KeyHoursFirst(p, block) ==
  << IF AssignedOnDay(p, block[1]) THEN 0 ELSE 1,
     assigned_hours(p),
     0 - available_blocks_count(p) >>

\* The sort key of the backfill pass.
Pass3Key(p, block) ==
  << IF AssignedOnDay(p, block[1]) THEN 0 ELSE 1,
     0 - available_blocks_count(p),
     assigned_hours(p) >>

Pass3Sorted(block) ==
  LET e == Pass3Eligible(block)
  IN StableSort(e, [k \in 1..Len(e) |-> Pass3Key(e[k], block)])

\* The positions of free_blocks behind pos whose loop body does something.
Pass3Work ==
  {k \in (pos + 1)..Len(free_blocks) :
     /\ Len(slots[free_blocks[k]]) < Needed(free_blocks[k])
     /\ Pass3Eligible(free_blocks[k]) # <<>>}

BackfillVisit ==
  /\ pc = "pass3"
  /\ eligible = <<>>
  /\ Pass3Work # {}
  /\ LET k == CHOOSE x \in Pass3Work : \A y \in Pass3Work : x <= y
     IN /\ pos' = k
        /\ eligible' = Pass3Sorted(free_blocks[k])
  /\ UNCHANGED <<asked_block, would_gap,
                 persons, assigned_blocks, caller, num_plans, i, plans, orders, seed, slots,
                 persons_sorted, pc, additional_blocks, free_blocks>>

BackfillTry ==
  /\ pc = "pass3"
  /\ eligible # <<>>
  /\ TryCandidate(free_blocks[pos])
  /\ UNCHANGED <<asked_block, would_gap,
                 persons, caller, num_plans, i, plans, orders, seed, persons_sorted, pc, pos,
                 additional_blocks, free_blocks>>

BackfillDone ==
  /\ pc = "pass3"
  /\ eligible = <<>>
  /\ Pass3Work = {}
  /\ pc' = "build"
  /\ UNCHANGED <<asked_block, would_gap,
                 persons, assigned_blocks, caller, num_plans, i, plans, orders, seed, slots,
                 persons_sorted, pos, eligible, additional_blocks, free_blocks>>

\* ---- plan building
\* plan_data: one record per name of every slot, in catalog order.
RECURSIVE PlanDataFrom(_)
PlanDataFrom(k) ==
  IF k > Len(blocks) THEN <<>>
  ELSE [n \in 1..Len(slots[blocks[k]]) |->
          [Day |-> blocks[k][1], Time |-> blocks[k][2],
           Person |-> slots[blocks[k]][n]]]
       \o PlanDataFrom(k + 1)

plan_data == PlanDataFrom(1)

\* hours_per_person[name]
RECURSIVE HoursOf(_, _)
HoursOf(name, data) ==
  IF data = <<>> THEN 0
  ELSE (IF Head(data).Person = name THEN block_hours[Head(data).Time] ELSE 0)
       + HoursOf(name, Tail(data))

hours_per_person(name) == HoursOf(name, plan_data)

\* df = pd.DataFrame(plan_data); df["Hours"] = df["Person"].map(hours_per_person)
DataFrame ==
  [k \in 1..Len(plan_data) |->
     [Day |-> plan_data[k].Day, Time |-> plan_data[k].Time,
      Person |-> plan_data[k].Person,
      Hours |-> hours_per_person(plan_data[k].Person)]]

\* A DataFrame built from an empty list has no columns: df["Person"] raises
\* KeyError, and the exception leaves generate_plans.
BuildPlan ==
  /\ pc = "build"
  /\ IF plan_data = <<>>
     THEN /\ pc' = "KeyError"
          /\ UNCHANGED <<i, plans, orders>>
     ELSE /\ pc' = "loop"
          /\ plans' = Append(plans, DataFrame)
          /\ orders' = Append(orders, persons_sorted)
          /\ i' = i + 1
  /\ UNCHANGED <<asked_block, would_gap,
                 persons, assigned_blocks, caller, num_plans, seed, slots,
                 persons_sorted,
                 pos, eligible, additional_blocks, free_blocks>>

\* ---- generate_plans
\* sorted(self.persons, key=lambda p: -p.available_blocks_count())
SortedPersons ==
  StableSort([k \in 1..Len(persons) |-> k],
             [k \in 1..Len(persons) |-> <<0 - available_blocks_count(k)>>])

\* The orders random.shuffle can leave a list in.  random.seed(seed) makes the
\* order a function of the seed and the length alone; generate_plans gives
\* every generation of a call another seed, and without a seed the order
\* comes from the state the process-wide generator happens to be in, so in
\* both cases no generation's order is tied to another's.
Shuffles(seq) ==
  {[k \in 1..Len(seq) |-> seq[f[k]]] :
     f \in {g \in [1..Len(seq) -> 1..Len(seq)] :
              \A a, b \in 1..Len(seq) : g[a] = g[b] => a = b}}

\* The slots map left as the previous generation filled it.
StaleSlots == slots

\* slots = defaultdict(list); for block in self.blocks: slots[block] = []
EmptySlots == [b \in BlockSet |-> <<>>]

\* One turn of the loop of generate_plans: every person is reset, then
\* _generate_single_plan begins (seed, empty slots, sort, shuffle).  A direct
\* caller resets the persons and calls _generate_single_plan() without a seed.
StartGeneration ==
  /\ pc = "loop"
  /\ i < num_plans
  /\ assigned_blocks' = reset_blocks
  /\ seed' = IF caller = "generate_plans" THEN i ELSE None
  /\ slots' = EmptySlots
  /\ persons_sorted' \in Shuffles(SortedPersons)
  /\ pc' = "pass1"
  /\ pos' = 0
  /\ eligible' = <<>>
  /\ additional_blocks' = <<>>
  /\ free_blocks' = <<>>
  /\ UNCHANGED <<asked_block, would_gap,
                 persons, caller, num_plans, i, plans, orders>>

\* return plans
ReturnPlans ==
  /\ pc = "loop"
  /\ i = num_plans
  /\ pc' = "returned"
  /\ UNCHANGED <<asked_block, would_gap,
                 persons, assigned_blocks, caller, num_plans, i, plans, orders, seed,
                 slots, persons_sorted, pos, eligible, additional_blocks,
                 free_blocks>>

\* ---- the inputs: parse_availability leaves one Person per row.
PersonsOf(r) ==
  [k \in DOMAIN r |->
     [name |-> PersonNames[k], availability |-> r[k][1], max_blocks |-> r[k][2]]]

\* The state after construction and parse_availability, before the first
\* generation.
Constructed ==
  /\ \E n \in 0..MaxPersons : \E r \in [1..n -> Rows] : persons = PersonsOf(r)
  /\ assigned_blocks = [p \in DOMAIN persons |-> <<>>]
  /\ i = 0
  /\ plans = <<>>
  /\ orders = <<>>
  /\ seed = None
  /\ slots = [b \in BlockSet |-> <<>>]
  /\ persons_sorted = <<>>
  /\ pc = "loop"
  /\ pos = 0
  /\ eligible = <<>>
  /\ additional_blocks = <<>>
  /\ free_blocks = <<>>
  /\ asked_block = <<>>
  /\ would_gap = FALSE

Next ==
  \/ StartGeneration
  \/ AssignBlocksVisit
  \/ AssignBlocksTry
  \/ AssignBlocksDone
  \/ TopUpVisit
  \/ TopUpTry
  \/ TopUpDone
  \/ BackfillVisit
  \/ BackfillTry
  \/ BackfillDone
  \/ BuildPlan
  \/ ReturnPlans

\* One plan is asked of generate_plans.
Init ==
  /\ Constructed
  /\ caller = "generate_plans"
  /\ num_plans = 1

Spec == Init /\ [][Next]_vars

\* Several plans are asked for, of generate_plans (seed = i) or by a caller
\* who resets the persons and calls _generate_single_plan() (seed = None).
InitPlans ==
  /\ Constructed
  /\ caller \in {"generate_plans", "direct"}
  /\ num_plans = MaxPlans

SpecPlans == InitPlans /\ [][Next]_vars

\* ---- _would_create_gap_sequence on its own
\* The levels of a sheet as far as the gap check tells them apart: not
\* available (0) and available (1 and above).
GapLevels == {0, 1, 3}

\* The days a call is made for; the person also holds, or not, blocks of the
\* other of the two days.
GapDays == {"Montag", "Dienstag"}

\* A person and a candidate block as the gap check can be handed them: any
\* levels on the candidate's day, every time block of the other day available,
\* any set of blocks of the candidate's day on the assigned list, and with or
\* without the first and the last block of the other day on it.
InitGap ==
  /\ \E day \in GapDays : \E lv \in [DOMAIN times -> GapLevels] :
     \E held \in SUBSET (DOMAIN times) : \E elsewhere \in BOOLEAN :
     \E t \in DOMAIN times :
       /\ persons =
            << [name |-> PersonNames[1],
                availability |->
                  [b \in BlockSet |->
                     IF b[1] = day THEN lv[TimesIndex(b[2])]
                     ELSE IF b[1] \in GapDays THEN 1 ELSE 0],
                max_blocks |-> MaxCap] >>
       /\ assigned_blocks =
            << FilterSeq(blocks,
                 {b \in BlockSet :
                    \/ b[1] = day /\ TimesIndex(b[2]) \in held
                    \/ /\ elsewhere
                       /\ b[1] \in GapDays \ {day}
                       /\ TimesIndex(b[2]) \in {1, Len(times)}}) >>
       /\ asked_block = <<day, times[t]>>
  /\ would_gap = FALSE
  /\ pc = "gap_call"
  /\ caller = "direct"
  /\ num_plans = 0
  /\ i = 0
  /\ plans = <<>>
  /\ orders = <<>>
  /\ seed = None
  /\ slots = [b \in BlockSet |-> <<>>]
  /\ persons_sorted = <<>>
  /\ pos = 0
  /\ eligible = <<>>
  /\ additional_blocks = <<>>
  /\ free_blocks = <<>>

\* self._would_create_gap_sequence(person, new_block): the function reads the
\* person and the catalog, builds local lists and returns.
WouldCreateGapSequence ==
  /\ pc = "gap_call"
  /\ would_gap' = _would_create_gap_sequence(1, asked_block)
  /\ pc' = "gap_return"
  /\ UNCHANGED <<persons, assigned_blocks, caller, num_plans, i, plans, orders, seed,
                 slots, persons_sorted, pos, eligible, additional_blocks,
                 free_blocks, asked_block>>

NextGap == WouldCreateGapSequence

SpecGap == InitGap /\ [][NextGap]_vars

\* ================================================================ claims
\* How often x occurs in seq.
CountIn(seq, x) == Cardinality({k \in DOMAIN seq : seq[k] = x})

\* The persons (positions) of the table.
Persons == DOMAIN persons

\* A generation is inside one of its three passes, or has just finished them.
InPasses == pc \in {"pass1", "pass2", "pass3", "build"}

\* p could still take block: available, below the cap, no gap would open.
CouldTake(p, block) ==
  /\ can_receive_block(p, block)
  /\ assigned_hours(p) + 2 <= persons[p].max_blocks
  /\ ~_would_create_gap_sequence(p, block)

\* The records of a plan that lie in block.
RecordsIn(plan, block) ==
  {k \in DOMAIN plan : plan[k].Day = block[1] /\ plan[k].Time = block[2]}

\* C1 (headcount bound): in every state of the passes and in every returned
\* plan no slot holds more names than it requires (2 for 10-12, else 3).
HeadcountBound ==
  /\ \A b \in BlockSet : Len(slots[b]) <= Needed(b)
  /\ \A g \in DOMAIN plans : \A b \in BlockSet :
       Cardinality(RecordsIn(plans[g], b)) <= Needed(b)

\* C1 witness: a slot stands at its headcount while somebody could still
\* take it, so the headcount is what keeps the next name out.
HeadcountWitness ==
  /\ InPasses
  /\ \E b \in BlockSet : \E p \in Persons :
       Len(slots[b]) = Needed(b) /\ CouldTake(p, b)

\* C2 (cap respected): a person with a non-negative cap never carries more
\* than the cap, at 2 units per assigned slot, and no plan reports more.
CapRespected ==
  /\ \A p \in Persons :
       persons[p].max_blocks >= 0 =>
         /\ assigned_hours(p) = 2 * block_count(p)
         /\ 2 * block_count(p) <= persons[p].max_blocks
  /\ \A g \in DOMAIN plans : \A k \in DOMAIN plans[g] : \A p \in Persons :
       plans[g][k].Person = persons[p].name =>
         plans[g][k].Hours <= persons[p].max_blocks

\* C2 witness: the passes are over, a person stands exactly at a positive cap,
\* and an understaffed slot that the person is available for stays open.
CapWitness ==
  /\ pc = "build"
  /\ \E p \in Persons : \E b \in BlockSet :
       /\ persons[p].max_blocks > 0
       /\ assigned_hours(p) = persons[p].max_blocks
       /\ can_receive_block(p, b)
       /\ ~_would_create_gap_sequence(p, b)
       /\ Len(slots[b]) < Needed(b)

\* The time indices of the blocks p holds on day.
AssignedIdx(p, day) ==
  {TimesIndex(assigned_blocks[p][k][2]) :
     k \in {q \in DOMAIN assigned_blocks[p] : assigned_blocks[p][q][1] = day}}

\* The time indices p is available for (preference >= 1) on day.
AvailableIdx(p, day) ==
  {k \in DOMAIN times : persons[p].availability[<<day, times[k]>>] >= 1}

\* C3 (no gap): on a day with at least 3 available time blocks, no time block
\* strictly between a person's earliest and latest assigned block of the day
\* is available to the person and not assigned to the person.
NoGap ==
  \A p \in Persons : \A d \in DOMAIN DayChars :
    Cardinality(AvailableIdx(p, d)) >= 3 =>
      \A lo, hi \in AssignedIdx(p, d) : \A mid \in AvailableIdx(p, d) :
        (lo < mid /\ mid < hi) => mid \in AssignedIdx(p, d)

\* C3 witness: the contiguity check turns away the candidate that is next in
\* line for a slot below its headcount.
NoGapWitness ==
  /\ pc \in {"pass1", "pass3"}
  /\ eligible # <<>>
  /\ LET b == IF pc = "pass1" THEN Pass1Block(pos) ELSE free_blocks[pos]
     IN /\ Len(slots[b]) < Needed(b)
        /\ _would_create_gap_sequence(Head(eligible), b)
        /\ assigned_blocks[Head(eligible)] # <<>>

\* The person (position) that carries a name.
PersonNamed(name) == CHOOSE p \in Persons : persons[p].name = name

\* C4 (eligibility): whoever holds a slot, in a person's list, in the slots
\* map or in a returned plan, has a level above 0 for that slot.
Eligibility ==
  /\ \A p \in Persons : \A k \in DOMAIN assigned_blocks[p] :
       /\ assigned_blocks[p][k] \in DOMAIN persons[p].availability
       /\ persons[p].availability[assigned_blocks[p][k]] > 0
  /\ \A b \in BlockSet : \A k \in DOMAIN slots[b] :
       persons[PersonNamed(slots[b][k])].availability[b] > 0
  /\ \A g \in DOMAIN plans : \A k \in DOMAIN plans[g] :
       persons[PersonNamed(plans[g][k].Person)]
         .availability[<<plans[g][k].Day, plans[g][k].Time>>] > 0

\* C4 witness: the passes are over, a person who holds slots has room under
\* the cap, and a slot of level 0 for that person is still understaffed.
EligibilityWitness ==
  /\ pc = "build"
  /\ \E p \in Persons : \E b \in BlockSet :
       /\ assigned_blocks[p] # <<>>
       /\ wants_block(p, b) = 0
       /\ assigned_hours(p) + 2 <= persons[p].max_blocks
       /\ Len(slots[b]) < Needed(b)

\* C5 as claimed (determinism without a seed): two generations asked for
\* without a seed, on the same persons after a reset, return the same plan.
UnseededDeterminism ==
  (caller = "direct" /\ Len(plans) >= 2) => plans[1] = plans[2]

\* C5 as amended: two generations without a seed return the same plan whenever
\* the shuffle left the pool in the same order.
DeterminismGivenOrder ==
  caller = "direct" =>
    \A g, h \in DOMAIN plans : orders[g] = orders[h] => plans[g] = plans[h]

\* C5 witness: two unseeded generations over two persons whose pools came out
\* of the shuffle in the same order.
DeterminismWitness ==
  /\ caller = "direct"
  /\ Len(persons) = 2
  /\ Len(plans) = 2
  /\ orders[1] = orders[2]
  /\ Len(plans[2]) >= 2

\* C6 as claimed (graceful degradation): with no persons, or with every cap
\* zero, the generation never raises.
GracefulDegradation ==
  (\A p \in Persons : persons[p].max_blocks = 0) => pc # "KeyError"

\* C7 (reset makes persons fresh): when the passes of a generation begin
\* every person's block_count is 0, and within generate_plans two plans whose
\* pools were shuffled into the same order are the same plan.
ResetMakesFresh ==
  /\ (pc = "pass1" /\ pos = 0) => \A p \in Persons : block_count(p) = 0
  /\ caller = "generate_plans" =>
       \A g, h \in DOMAIN plans : orders[g] = orders[h] => plans[g] = plans[h]

\* C7 witness: the second generation of generate_plans has begun with the
\* same order as the first, whose plan holds records, and is finished.
ResetWitness ==
  /\ caller = "generate_plans"
  /\ Len(plans) = 2
  /\ orders[1] = orders[2]
  /\ Len(plans[1]) >= 2
  /\ \E p \in Persons : block_count(p) > 0

\* The generation has finished its passes; the persons and the slots map
\* are those of the plan that is built from them.
GenerationEnded ==
  pc = "build" \/ (pc \in {"loop", "returned"} /\ plans # <<>>)

\* C8 (plan and persons agree): at the end of a generation a name occurs in a
\* slot's list as often as the slot occurs in that person's assigned list,
\* and the hours on the person's records are 2 per assigned slot.
PlanAgreesWithPersons ==
  GenerationEnded =>
    /\ \A p \in Persons : \A b \in BlockSet :
         CountIn(slots[b], persons[p].name) = CountIn(assigned_blocks[p], b)
    /\ \A p \in Persons :
         hours_per_person(persons[p].name) = 2 * block_count(p)
    /\ (pc # "build") =>
         \A k \in DOMAIN plans[Len(plans)] :
           plans[Len(plans)][k].Hours =
             assigned_hours(PersonNamed(plans[Len(plans)][k].Person))

\* C8 witness: a plan has been returned in which a person holds two different
\* slots and one of them twice.
PlanAgreesWitness ==
  /\ pc = "loop"
  /\ plans # <<>>
  /\ \E p \in Persons : \E b, c \in BlockSet :
       /\ b # c
       /\ CountIn(assigned_blocks[p], b) = 2
       /\ CountIn(assigned_blocks[p], c) >= 1

\* C9 as claimed (no double booking): no name occurs twice in one slot.
NoDoubleBooking ==
  \A b \in BlockSet : \A p \in Persons : CountIn(slots[b], persons[p].name) <= 1

\* C10 as claimed (headcount met when supply allows): when the backfill pass
\* has finished, no understaffed slot has a person outside it who could
\* still take it.
HeadcountMetWhenSupplyAllows ==
  pc = "build" =>
    \A b \in BlockSet :
      Len(slots[b]) < Needed(b) =>
        ~ \E p \in Persons : ~NameInSlot(p, b) /\ CouldTake(p, b)

\* The time indices of day that lie strictly between two indices of the set S
\* and that p is available for without their being in S.
OpenBetween(p, day, S) ==
  {mid \in AvailableIdx(p, day) \ S : \E lo, hi \in S : lo < mid /\ mid < hi}

\* C11 (contiguity predicate): a call of _would_create_gap_sequence answers
\* true exactly when the person has at least 3 available time blocks on the
\* candidate's day and some time block strictly between the earliest and the
\* latest of (assigned that day plus candidate) is available but not among
\* them; the call changes neither the person nor the slots.
ContiguityPredicate ==
  [][pc = "gap_call" =>
       /\ would_gap' =
            (/\ Cardinality(AvailableIdx(1, asked_block[1])) >= 3
             /\ OpenBetween(1, asked_block[1],
                            AssignedIdx(1, asked_block[1])
                              \cup {TimesIndex(asked_block[2])}) # {})
       /\ UNCHANGED <<persons, assigned_blocks, slots>>]_vars

\* C11 witness: a call has answered true for a person who holds a block of the
\* candidate's day and a block of another day.
ContiguityWitness ==
  /\ pc = "gap_return"
  /\ would_gap
  /\ AssignedIdx(1, asked_block[1]) # {}
  /\ \E k \in DOMAIN assigned_blocks[1] : assigned_blocks[1][k][1] # asked_block[1]

\* The place of a block in the catalog (Montag 10-12 first, Freitag 16-18 last).
CatalogIndex(block) == CHOOSE k \in DOMAIN blocks : blocks[k] = block

\* C12 as claimed (top-up order): the blocks a qualifying person is still to
\* be offered in the top-up pass stand in chronological catalog order, days
\* from Montag to Freitag and time blocks from 10-12 to 16-18 within a day.
TopUpChronological ==
  pc = "pass2" =>
    \A j, k \in DOMAIN additional_blocks :
      j < k => CatalogIndex(additional_blocks[j]) < CatalogIndex(additional_blocks[k])

\* 0 for a person who already holds a block of the day, 1 otherwise.
DayFlag(p, day) == IF AssignedOnDay(p, day) THEN 0 ELSE 1

\* The backfill pass is at a slot with candidates still to try.
BackfillTrying == pc = "pass3" /\ eligible # <<>>

Receivers == {p \in Persons : assigned_blocks'[p] # assigned_blocks[p]}

\* Somebody could still be a candidate of position k of the first pass: the
\* block is below its headcount and a person of exactly that tier has room.
TierOpenAt(k) ==
  /\ Len(slots[Pass1Block(k)]) < Needed(Pass1Block(k))
  /\ \E p \in Persons :
       /\ wants_block(p, Pass1Block(k)) = Pass1Level(k)
       /\ persons[p].availability[Pass1Block(k)] > 0
       /\ assigned_hours(p) + 2 <= persons[p].max_blocks

\* C14 (tier order in pass 1): the first pass moves forward only, through the
\* catalog for tier 3, then for tier 2, then for tier 1, so that the tier never
\* rises, and passes over no position that has a candidate; an assignment
\* made at tier L is of the block being visited and goes to a person whose
\* level for it is exactly L; the top-up pass begins only
\* out of a first pass with no position left to visit, and the backfill pass
\* only out of the top-up pass.
TierOrder ==
  [][/\ (pc = "pass1" /\ pc' = "pass1" /\ pos >= 1) =>
          /\ pos' >= pos
          /\ Pass1Level(pos') <= Pass1Level(pos)
          /\ (Pass1Level(pos') = Pass1Level(pos)) =>
               CatalogIndex(Pass1Block(pos')) >= CatalogIndex(Pass1Block(pos))
     /\ (pc = "pass1" /\ pc' = "pass1" /\ pos' # pos) =>
          \A k \in (pos + 1)..(pos' - 1) : ~TierOpenAt(k)
     /\ pc = "pass1" =>
          \A p \in Receivers :
            /\ assigned_blocks'[p] = Append(assigned_blocks[p], Pass1Block(pos))
            /\ wants_block(p, Pass1Block(pos)) = Pass1Level(pos)
            /\ Pass1Level(pos) \in {1, 2, 3}
     /\ (pc = "pass1" /\ pc' # "pass1") =>
          /\ pc' = "pass2"
          /\ \A k \in (pos + 1)..(3 * Len(blocks)) : ~TierOpenAt(k)
     /\ (pc # "pass2" /\ pc' = "pass2") => pc = "pass1"
     /\ (pc # "pass3" /\ pc' = "pass3") => pc = "pass2"]_vars

\* C14 witness: the first pass stands in tier 1 and a person holds a block of
\* level 3, a block of level 2 and a block of level 1.
TierOrderWitness ==
  /\ pc = "pass1"
  /\ pos > 2 * Len(blocks)
  /\ \E p \in Persons :
       \A L \in {1, 2, 3} :
         \E k \in DOMAIN assigned_blocks[p] : wants_block(p, assigned_blocks[p][k]) = L

====
